---- MODULE Spec2Model ----
(***************************************************************************)
(* Delivery-batch reconciliation of the billbook application.              *)
(*                                                                         *)
(* The store holds the tables pos_transactions, transaction_items,         *)
(* delivery_batches and delivery_batch_items.  Each session is one mounted *)
(* DeliveryBatchForm (one browser tab): its React state is form[s], and    *)
(* every await of loadData / handleSubmit is a separate step, so that the  *)
(* reads and writes of two sessions interleave as they do on the store.    *)
(* Spec is the delivery-form flow; the status buttons of the history page  *)
(* (handleUpdateStatus) are not among its actions.                         *)
(***************************************************************************)
EXTENDS Integers, FiniteSets, Sequences, TLC

\* ---------------------------------------------------------------- bounds
MaxBatches == 3   \* rows of delivery_batches the store may hold
MaxOpens == 2     \* mounts of the delivery form in one behaviour
MaxFiles == 3     \* files the invoice-files bucket may hold
MaxCheckouts == 1 \* checkouts of the POS page in one behaviour
MaxRefunds == 2   \* refunds rows inserted in one behaviour

Sessions == {1, 2}
Txs == {1, 2}

\* The product catalogue the carts are drawn from: products.name is not
\* unique, and product 2 differs from product 1 only in the case of its name.
Products == {1, 2, 3}
ProductName(p) == CASE p = 1 -> "A" [] p = 2 -> "a" [] OTHER -> "A"
Names == {ProductName(p) : p \in Products}

VARIABLES
  pos_transactions,      \* [Txs -> row]: payment_status, delivery_status, total_amount
  transaction_items,     \* set of rows: id, transaction_id, product_name, quantity
  delivery_batches,      \* set of rows: id, transaction_id, batch_number
  delivery_batch_items,  \* set of rows: batch_id, transaction_item_id, product_name, quantity
  pc,                    \* [Sessions -> position of the form's running handler]
  form,                  \* [Sessions -> React state and handler locals of the form]
  toast,                 \* [Sessions -> last notification the form raised]
  callbacks,             \* [Sessions -> props callbacks the form has invoked]
  writeErrors,           \* [Sessions -> write steps of the running/last handleSubmit that returned an error]
  opens,                 \* number of form mounts so far
  receipt,               \* [Sessions -> React state and loadData locals of the DeliveryBatchReceipt]
  cleanup,               \* the invoice-files bucket and the running cleanup-old-files request
  refunds,               \* set of rows: id, transaction_id, refund_amount
  customers,             \* set of rows: id, name
  desk                   \* the staff session on the POS, history and customer pages

store == <<pos_transactions, transaction_items, delivery_batches, delivery_batch_items>>
\* the tables and the session of the office pages
office == <<refunds, customers, desk>>

vars == <<pos_transactions, transaction_items, delivery_batches, delivery_batch_items,
          pc, form, toast, callbacks, writeErrors, opens, receipt, cleanup,
          refunds, customers, desk>>

\* ------------------------------------------------------------- helpers
RECURSIVE SumQuantity(_)
\* Array.prototype.reduce((sum, item) => sum + item.quantity, 0) over rows
SumQuantity(rows) ==
  IF rows = {} THEN 0
  ELSE LET r == CHOOSE x \in rows : TRUE
       IN r.quantity + SumQuantity(rows \ {r})

EmptyMap == [x \in {} |-> 0]

RECURSIVE SumValues(_)
\* reduce((sum, [_, qty]) => sum + qty, 0) over the entries of a map
SumValues(m) ==
  IF DOMAIN m = {} THEN 0
  ELSE LET k == CHOOSE x \in DOMAIN m : TRUE
       IN m[k] + SumValues([x \in DOMAIN m \ {k} |-> m[x]])

RECURSIVE Digits(_)
\* String(n) for a non-negative integer, as its sequence of decimal digits
Digits(n) == IF n < 10 THEN <<n>> ELSE Append(Digits(n \div 10), n % 10)

RECURSIVE PadStart(_, _, _)
\* String.prototype.padStart(len, ch)
PadStart(str, len, ch) == IF Len(str) >= len THEN str ELSE PadStart(<<ch>> \o str, len, ch)

\* now.toISOString().slice(0, 10).replace(/-/g, ""): the clock is not modelled,
\* every batch is created on the same day
DateStr == <<2, 0, 2, 5, 1, 2, 0, 3>>

\* `DEL-${dateStr}-${String(batchCount + 1).padStart(3, "0")}`
BatchNumber(batchCount) == <<"DEL", DateStr, PadStart(Digits(batchCount + 1), 3, 0)>>

\* ------------------------------------------------------------- the store
\* transaction_items rows written by one checkout of cart (product -> quantity)
LineItems(t, cart) ==
  {[id |-> <<t, p>>, transaction_id |-> t, product_name |-> ProductName(p),
    quantity |-> cart[p]] : p \in DOMAIN cart}

\* The carts checked out (cart: product id -> quantity, POS.addToCart keys the
\* cart by product id): two lines whose names differ in case only; two lines
\* of two products that carry the same name, one of them of two units.
Carts ==
  {[p \in {1, 2} |-> 1],
   [p \in {1, 3} |-> IF p = 1 THEN 1 ELSE 2]}

\* products.price of the three products
Price(p) == p

RECURSIVE calculateTotal(_)
\* cart.reduce((sum, item) => sum + item.price * item.quantity, 0)
calculateTotal(cart) ==
  IF DOMAIN cart = {} THEN 0
  ELSE LET p == CHOOSE x \in DOMAIN cart : TRUE
       IN Price(p) * cart[p] + calculateTotal([x \in DOMAIN cart \ {p} |-> cart[x]])

\* the pos_transactions row of a checkout; delivery_status by column default
NewTransaction(cart) ==
  [payment_status |-> "pending", delivery_status |-> "pending",
   total_amount |-> calculateTotal(cart)]

\* .from("transaction_items").select("*").eq("transaction_id", t)
SelectTransactionItems(t) == {r \in transaction_items : r.transaction_id = t}

\* .from("delivery_batches").select("id").eq("transaction_id", t)
SelectBatchIds(t) == {b.id : b \in {x \in delivery_batches : x.transaction_id = t}}

\* .from("delivery_batch_items").select("product_name, quantity").in("batch_id", batchIds)
\* (a list of rows: rows equal in name and quantity stay distinct rows)
SelectBatchItems(batchIds) == {r \in delivery_batch_items : r.batch_id \in batchIds}

\* ------------------------------------------------------------- the form
InitialForm ==
  [transaction |-> 0,            \* props.transaction.id (0: not mounted)
   items |-> {},                 \* useState<TransactionItem[]>([])
   deliveredItems |-> {},        \* useState<DeliveredItem[]>([])
   selectedItems |-> EmptyMap,   \* useState<Record<string, number>>({})
   batchCount |-> 0,             \* useState(0)
   transactionItems |-> {},      \* loadData local
   batches |-> {},               \* loadData local (ids)
   batchItems |-> {},            \* loadData local (rows read)
   itemsToDeliver |-> EmptyMap,  \* handleSubmit local
   batchNumber |-> <<>>,         \* handleSubmit local
   batch |-> 0]                  \* handleSubmit local (id of the inserted batch)

RECURSIVE Aggregate(_)
\* loadData: delivered[item.product_name] = (delivered[item.product_name] || 0) + item.quantity
Aggregate(rows) ==
  IF rows = {} THEN EmptyMap
  ELSE LET r == CHOOSE x \in rows : TRUE
           rest == Aggregate(rows \ {r})
       IN [n \in DOMAIN rest \cup {r.product_name} |->
             (IF n \in DOMAIN rest THEN rest[n] ELSE 0)
             + (IF n = r.product_name THEN r.quantity ELSE 0)]

\* Object.entries(delivered).map(([product_name, total_delivered]) => ({...}))
DeliveredEntries(delivered) ==
  {[product_name |-> n, total_delivered |-> delivered[n]] : n \in DOMAIN delivered}

\* variant: the name is matched without regard to case
getDeliveredQuantity_IgnoreCase(f, productName) ==
  LET upper(n) == IF n = "a" THEN "A" ELSE n
      found == {d \in f.deliveredItems : upper(d.product_name) = upper(productName)}
  IN IF found = {} THEN 0 ELSE (CHOOSE d \in found : TRUE).total_delivered

\* deliveredItems.find((d) => d.product_name === productName)?.total_delivered || 0
getDeliveredQuantity(f, productName) ==
  LET found == {d \in f.deliveredItems : d.product_name = productName}
  IN IF found = {} THEN 0 ELSE (CHOOSE d \in found : TRUE).total_delivered

getRemainingQuantity(f, item) ==
  item.quantity - getDeliveredQuantity(f, item.product_name)

ItemById(f, itemId) == CHOOSE i \in f.items : i.id = itemId

\* variant: the filter keeps the entries of quantity 0
ItemsToDeliver_KeepZero(selectedItems) ==
  LET keep == {k \in DOMAIN selectedItems : selectedItems[k] >= 0}
  IN [k \in keep |-> selectedItems[k]]

\* Object.entries(selectedItems).filter(([_, qty]) => qty > 0)
ItemsToDeliver(selectedItems) ==
  LET keep == {k \in DOMAIN selectedItems : selectedItems[k] > 0}
  IN [k \in keep |-> selectedItems[k]]

\* handleSubmit: totalDeliveredBefore + totalDeliveredNow >= totalOrdered
TotalOrdered(f) == SumQuantity(f.items)
TotalDeliveredBefore(f) ==
  SumValues([n \in {d.product_name : d \in f.deliveredItems} |-> getDeliveredQuantity(f, n)])
TotalDeliveredNow(f) == SumValues(f.itemsToDeliver)
SubmitComplete(f) == TotalDeliveredBefore(f) + TotalDeliveredNow(f) >= TotalOrdered(f)

\* ------------------------------------------------------------- the receipt
NoReceipt ==
  [pc |-> "closed",
   transaction |-> 0,     \* props.transaction.id
   txItems |-> {},        \* loadData local, also setAllTransactionItems
   txItemsNull |-> TRUE,  \* txItems is null until the read succeeded
   allBatches |-> {},     \* loadData local (ids)
   checked |-> FALSE,     \* loadData reached setIsComplete
   isComplete |-> FALSE]  \* useState(false)

\* variant: every product name is compared on its own
ReceiptComplete_PerProduct(txItems, allDeliveredItems) ==
  \A n \in {i.product_name : i \in txItems} :
    SumQuantity({r \in allDeliveredItems : r.product_name = n})
      >= SumQuantity({i \in txItems : i.product_name = n})

\* DeliveryBatchReceipt.loadData:
\* totalDelivered >= totalOrdered over the rows read
ReceiptComplete(txItems, allDeliveredItems) ==
  SumQuantity(allDeliveredItems) >= SumQuantity(txItems)

\* ------------------------------------------------------------- the cleanup request
NoResponse == [status |-> 0, body |-> [none |-> TRUE]]

NoCleanup(bucket) ==
  [pc |-> "idle",
   bucket |-> bucket,        \* storage objects of invoice-files
   method |-> "",            \* req.method
   cutoffDate |-> 0,         \* const cutoffDate
   files |-> <<>>,           \* data of list()
   listError |-> FALSE,      \* error of list()
   oldFiles |-> <<>>,        \* files.filter(...)
   i |-> 0,                  \* position of the for loop in oldFiles
   deleteResults |-> <<>>,   \* const deleteResults: DeleteResult[]
   removeCalls |-> <<>>,     \* the remove() calls of this request: <<name, outcome>>
   response |-> NoResponse]

\* ------------------------------------------------------------- the office session
NoDesk ==
  [pc |-> "idle",          \* position of the running handler
   cart |-> EmptyMap,      \* POS cart at createTransaction (product id -> quantity)
   customerName |-> "",    \* POS customerName
   transaction |-> 0,      \* id of the transaction inserted / refunded
   refundAmount |-> 0,     \* parseFloat(refundAmount) of the running refund
   reason |-> "",          \* RefundForm reason
   bankName |-> "",        \* RefundForm bankName
   accountNumber |-> "",   \* RefundForm accountNumber
   toast |-> "none",       \* last notification
   callbacks |-> {},       \* props callbacks the refund form has invoked
   checkouts |-> 0,        \* pos_transactions rows inserted so far
   refundsMade |-> 0]      \* refunds rows inserted so far

\* ------------------------------------------------------------- Init
\* Transaction 1 is a fresh checkout of any cart; transaction 2 is an older
\* order of one unit of product 1 that has been delivered in one batch.
DeliveredCart == [p \in {1} |-> 1]

InitApp ==
  /\ \E cart \in Carts :
       /\ transaction_items = LineItems(1, cart) \cup LineItems(2, DeliveredCart)
       /\ pos_transactions =
            [t \in Txs |-> IF t = 1 THEN NewTransaction(cart)
                           ELSE [NewTransaction(DeliveredCart) EXCEPT !.delivery_status = "delivered"]]
  /\ delivery_batches = {[id |-> 1, transaction_id |-> 2, batch_number |-> BatchNumber(0)]}
  /\ delivery_batch_items =
       {[batch_id |-> 1, transaction_item_id |-> <<2, p>>, product_name |-> ProductName(p),
         quantity |-> DeliveredCart[p]] : p \in DOMAIN DeliveredCart}
  /\ pc = [s \in Sessions |-> "closed"]
  /\ form = [s \in Sessions |-> InitialForm]
  /\ toast = [s \in Sessions |-> "none"]
  /\ callbacks = [s \in Sessions |-> {}]
  /\ writeErrors = [s \in Sessions |-> {}]
  /\ opens = 0
  /\ receipt = [s \in Sessions |-> NoReceipt]
  /\ refunds = {}
  /\ customers = {}
  /\ desk = NoDesk

\* the application with an empty bucket and no cleanup request
Init == InitApp /\ cleanup = NoCleanup(<<>>)

\* ------------------------------------------------------------- actions
\* TransactionHistory renders <DeliveryBatchForm transaction=...>; useEffect runs loadData
Open(s, t) ==
  /\ pc[s] = "closed"
  /\ receipt[s].pc = "closed"
  /\ opens < MaxOpens
  /\ opens' = opens + 1
  /\ UNCHANGED <<receipt, cleanup, office>>
  /\ pc' = [pc EXCEPT ![s] = "loadItems"]
  /\ form' = [form EXCEPT ![s] = [InitialForm EXCEPT !.transaction = t]]
  /\ toast' = [toast EXCEPT ![s] = "none"]
  /\ callbacks' = [callbacks EXCEPT ![s] = {}]
  /\ writeErrors' = [writeErrors EXCEPT ![s] = {}]
  /\ UNCHANGED store

\* variant: the catch block shows the line items read so far
LoadFailed_ShowItems(s) ==
  /\ pc' = [pc EXCEPT ![s] = "ready"]
  /\ toast' = [toast EXCEPT ![s] = "loadError"]
  /\ form' = [form EXCEPT ![s].items = SelectTransactionItems(form[s].transaction)]
  /\ UNCHANGED <<store, callbacks, writeErrors>>

\* loadData catch/finally: toast, setLoading(false); items stay []
LoadFailed(s) ==
  /\ pc' = [pc EXCEPT ![s] = "ready"]
  /\ toast' = [toast EXCEPT ![s] = "loadError"]
  /\ UNCHANGED <<form, store, callbacks, writeErrors>>

\* loadData, first await: the transaction's line items
LoadItems(s) ==
  /\ UNCHANGED <<opens, receipt, cleanup, office>>
  /\ pc[s] = "loadItems"
  /\ \/ /\ form' = [form EXCEPT ![s].transactionItems =
                      SelectTransactionItems(form[s].transaction)]
        /\ pc' = [pc EXCEPT ![s] = "loadBatches"]
        /\ UNCHANGED <<store, toast, callbacks, writeErrors>>
     \/ LoadFailed(s)

\* loadData, second await: the ids of the transaction's batches; setBatchCount.
\* Without batches the third read is skipped and setItems ends the load.
LoadBatches(s) ==
  /\ UNCHANGED <<opens, receipt, cleanup, office>>
  /\ pc[s] = "loadBatches"
  /\ \/ LET ids == SelectBatchIds(form[s].transaction)
        IN /\ form' = [form EXCEPT ![s].batches = ids,
                                   ![s].batchCount = Cardinality(ids),
                                   ![s].items = IF ids = {} THEN form[s].transactionItems
                                                ELSE form[s].items]
           /\ pc' = [pc EXCEPT ![s] = IF ids = {} THEN "ready" ELSE "loadBatchItems"]
           /\ UNCHANGED <<store, toast, callbacks, writeErrors>>
     \/ LoadFailed(s)

\* loadData, third await: the items of those batches, aggregated by product
\* name; setDeliveredItems; setItems
LoadBatchItems(s) ==
  /\ UNCHANGED <<opens, receipt, cleanup, office>>
  /\ pc[s] = "loadBatchItems"
  /\ \/ LET rows == SelectBatchItems(form[s].batches)
        IN /\ form' = [form EXCEPT ![s].batchItems = rows,
                                   ![s].deliveredItems = DeliveredEntries(Aggregate(rows)),
                                   ![s].items = form[s].transactionItems]
           /\ pc' = [pc EXCEPT ![s] = "ready"]
           /\ UNCHANGED <<store, toast, callbacks, writeErrors>>
     \/ LoadFailed(s)

\* variant: checking an item selects one unit more than its remaining quantity
handleToggleItem_OneMore(selectedItems, itemId, checked, maxQuantity) ==
  IF checked
  THEN [k \in DOMAIN selectedItems \cup {itemId} |->
          IF k = itemId THEN maxQuantity + 1 ELSE selectedItems[k]]
  ELSE [k \in DOMAIN selectedItems \ {itemId} |-> selectedItems[k]]

\* handleToggleItem(itemId, checked, maxQuantity) applied to selectedItems
handleToggleItem(selectedItems, itemId, checked, maxQuantity) ==
  IF checked
  THEN [k \in DOMAIN selectedItems \cup {itemId} |->
          IF k = itemId THEN maxQuantity ELSE selectedItems[k]]
  ELSE [k \in DOMAIN selectedItems \ {itemId} |-> selectedItems[k]]

\* variant: the quantity is clamped at 0 only, not at maxQuantity
handleQuantityChange_NoUpperClamp(selectedItems, itemId, quantity, maxQuantity) ==
  LET q0 == IF quantity < 0 THEN 0 ELSE quantity
  IN [k \in DOMAIN selectedItems \cup {itemId} |->
        IF k = itemId THEN q0 ELSE selectedItems[k]]

\* handleQuantityChange(itemId, quantity, maxQuantity) applied to selectedItems
handleQuantityChange(selectedItems, itemId, quantity, maxQuantity) ==
  LET q0 == IF quantity < 0 THEN 0 ELSE quantity
      q1 == IF q0 > maxQuantity THEN maxQuantity ELSE q0
  IN [k \in DOMAIN selectedItems \cup {itemId} |->
        IF k = itemId THEN q1 ELSE selectedItems[k]]

\* What the rendered controls can make of selectedItems in one event: the
\* checkbox (disabled when remaining === 0) calls handleToggleItem with the
\* negated isSelected, and -, + and the number input (rendered when
\* isSelected && remaining > 0) call handleQuantityChange with any integer.
UiEdits(f, selectedItems) ==
  UNION {LET remaining == getRemainingQuantity(f, item)
             isSelected == item.id \in DOMAIN selectedItems
         IN (IF remaining # 0
             THEN {handleToggleItem(selectedItems, item.id, ~isSelected, remaining)}
             ELSE {})
            \cup
            (IF isSelected /\ remaining > 0
             THEN {handleQuantityChange(selectedItems, item.id, q, remaining) :
                     q \in (-1)..(item.quantity + 1)}
             ELSE {})
         : item \in f.items}

RECURSIVE Edited(_, _)
\* every selectedItems the user can reach from sels by such events
Edited(f, sels) ==
  LET more == sels \cup UNION {UiEdits(f, sel) : sel \in sels}
  IN IF more = sels THEN sels ELSE Edited(f, more)

\* The user edits the selection (events local to the form, invisible to the
\* store and to other sessions) and presses the submit button.  handleSubmit
\* up to its first await: validation, setSubmitting(true), batchNumber.
\* form[s].selectedItems holds the selection while handleSubmit runs; between
\* submits the selection is whatever Edited yields (every selection can be
\* unchecked back to {}, so Edited does not depend on where it starts).
handleSubmit(s) ==
  /\ UNCHANGED <<opens, receipt, cleanup, office>>
  /\ pc[s] = "ready"
  /\ \E selectedItems \in Edited(form[s], {form[s].selectedItems}) :
       LET itemsToDeliver == ItemsToDeliver(selectedItems)
       IN IF DOMAIN itemsToDeliver = {}
          THEN /\ toast' = [toast EXCEPT ![s] = "validation"]
               /\ writeErrors' = [writeErrors EXCEPT ![s] = {}]
               /\ UNCHANGED <<store, pc, form, callbacks>>
          ELSE /\ form' = [form EXCEPT ![s].selectedItems = selectedItems,
                                       ![s].itemsToDeliver = itemsToDeliver,
                                       ![s].batchNumber = BatchNumber(form[s].batchCount),
                                       ![s].batch = 0]
               /\ pc' = [pc EXCEPT ![s] = "insertBatch"]
               /\ writeErrors' = [writeErrors EXCEPT ![s] = {}]
               /\ UNCHANGED <<store, toast, callbacks>>

\* handleSubmit catch/finally: error toast, setSubmitting(false); the form stays open
SubmitFailed(s, step) ==
  /\ pc' = [pc EXCEPT ![s] = "ready"]
  /\ toast' = [toast EXCEPT ![s] = "error"]
  /\ writeErrors' = [writeErrors EXCEPT ![s] = writeErrors[s] \cup {step}]
  /\ form' = [form EXCEPT ![s].selectedItems = EmptyMap,
                          ![s].itemsToDeliver = EmptyMap,
                          ![s].batchNumber = <<>>,
                          ![s].batch = 0]
  /\ UNCHANGED callbacks

NewBatchId == Cardinality(delivery_batches) + 1

\* handleSubmit: insert into delivery_batches ... .select().single()
InsertBatch(s) ==
  /\ UNCHANGED <<opens, receipt, cleanup, office>>
  /\ pc[s] = "insertBatch"
  /\ \/ /\ Cardinality(delivery_batches) < MaxBatches
        /\ delivery_batches' = delivery_batches \cup
             {[id |-> NewBatchId, transaction_id |-> form[s].transaction,
               batch_number |-> form[s].batchNumber]}
        /\ form' = [form EXCEPT ![s].batch = NewBatchId]
        /\ pc' = [pc EXCEPT ![s] = "insertItems"]
        /\ UNCHANGED <<pos_transactions, transaction_items, delivery_batch_items,
                       toast, callbacks, writeErrors>>
     \/ /\ SubmitFailed(s, "batch")
        /\ UNCHANGED store

\* batchItemsData = itemsToDeliver.map(...)
BatchItemsData(f) ==
  {[batch_id |-> f.batch, transaction_item_id |-> itemId,
    product_name |-> ItemById(f, itemId).product_name,
    quantity |-> f.itemsToDeliver[itemId]] : itemId \in DOMAIN f.itemsToDeliver}

\* variant: a failed item insert is followed by the status update all the same
InsertBatchItems_StatusOnFailure(s) ==
  /\ UNCHANGED <<opens, receipt, cleanup, office>>
  /\ pc[s] = "insertItems"
  /\ \/ /\ delivery_batch_items' = delivery_batch_items \cup BatchItemsData(form[s])
        /\ pc' = [pc EXCEPT ![s] = "checkComplete"]
        /\ UNCHANGED <<pos_transactions, transaction_items, delivery_batches,
                       form, toast, callbacks, writeErrors>>
     \/ /\ SubmitFailed(s, "items")
        /\ pos_transactions' =
             [pos_transactions EXCEPT ![form[s].transaction].delivery_status = "delivered"]
        /\ UNCHANGED <<transaction_items, delivery_batches, delivery_batch_items>>

\* handleSubmit: insert into delivery_batch_items
InsertBatchItems(s) ==
  /\ UNCHANGED <<opens, receipt, cleanup, office>>
  /\ pc[s] = "insertItems"
  /\ \/ /\ delivery_batch_items' = delivery_batch_items \cup BatchItemsData(form[s])
        /\ pc' = [pc EXCEPT ![s] = "checkComplete"]
        /\ UNCHANGED <<pos_transactions, transaction_items, delivery_batches,
                       form, toast, callbacks, writeErrors>>
     \/ /\ SubmitFailed(s, "items")
        /\ UNCHANGED store

\* handleSubmit: the completion check, the status update (its result is not
\* inspected), the success toast, onSuccess(), onClose()
CheckComplete(s) ==
  /\ UNCHANGED <<opens, receipt, cleanup, office>>
  /\ pc[s] = "checkComplete"
  /\ LET t == form[s].transaction
     IN IF SubmitComplete(form[s])
        THEN \/ /\ pos_transactions' = [pos_transactions EXCEPT ![t].delivery_status = "delivered"]
                /\ UNCHANGED writeErrors
             \/ /\ UNCHANGED pos_transactions
                /\ writeErrors' = [writeErrors EXCEPT ![s] = writeErrors[s] \cup {"status"}]
        ELSE UNCHANGED <<pos_transactions, writeErrors>>
  /\ toast' = [toast EXCEPT ![s] = "success"]
  /\ callbacks' = [callbacks EXCEPT ![s] = {"onSuccess", "onClose"}]
  /\ pc' = [pc EXCEPT ![s] = "closed"]
  /\ form' = [form EXCEPT ![s] = InitialForm]
  /\ UNCHANGED <<transaction_items, delivery_batches, delivery_batch_items>>

\* the cancel button (disabled while submitting) -> onClose(): the form is
\* unmounted, and what it showed is gone with it
Close(s) ==
  /\ UNCHANGED <<opens, receipt, cleanup, office>>
  /\ pc[s] = "ready"
  /\ pc' = [pc EXCEPT ![s] = "closed"]
  /\ form' = [form EXCEPT ![s] = InitialForm]
  /\ toast' = [toast EXCEPT ![s] = "none"]
  /\ callbacks' = [callbacks EXCEPT ![s] = {}]
  /\ writeErrors' = [writeErrors EXCEPT ![s] = {}]
  /\ UNCHANGED store

\* variant: pressing the button of a status that is no longer pending resets it
handleUpdateStatus_Toggle(t, statusType, newStatus) ==
  /\ \/ pos_transactions' =
          [pos_transactions EXCEPT ![t][statusType] =
             IF pos_transactions[t][statusType] = "pending" THEN newStatus ELSE "pending"]
     \/ UNCHANGED pos_transactions
  /\ UNCHANGED <<transaction_items, delivery_batches, delivery_batch_items,
                 pc, form, toast, callbacks, writeErrors, opens, receipt, cleanup, office>>

\* variant: the update writes the new value to both status columns
handleUpdateStatus_BothColumns(t, statusType, newStatus) ==
  /\ \/ pos_transactions' = [pos_transactions EXCEPT ![t].payment_status = newStatus,
                                                     ![t].delivery_status = newStatus]
     \/ UNCHANGED pos_transactions
  /\ UNCHANGED <<transaction_items, delivery_batches, delivery_batch_items,
                 pc, form, toast, callbacks, writeErrors, opens, receipt, cleanup, office>>

\* TransactionHistory.handleUpdateStatus(transactionId, statusType, newStatus):
\* update({ [statusType]: newStatus }).eq("id", transactionId), which may
\* return an error.  Its buttons are rendered from the page's own copy of the
\* row, which loadTransactions refreshes only at mount and after a successful
\* update: a page loaded while the status was pending keeps offering the
\* button whatever the store holds by now, so the store's value is no guard.
handleUpdateStatus(t, statusType, newStatus) ==
  /\ \/ pos_transactions' = [pos_transactions EXCEPT ![t][statusType] = newStatus]
     \/ UNCHANGED pos_transactions
  /\ UNCHANGED <<transaction_items, delivery_batches, delivery_batch_items,
                 pc, form, toast, callbacks, writeErrors, opens, receipt, cleanup, office>>

Next ==
  \/ \E s \in Sessions, t \in Txs : Open(s, t)
  \/ \E s \in Sessions : LoadItems(s)
  \/ \E s \in Sessions : LoadBatches(s)
  \/ \E s \in Sessions : LoadBatchItems(s)
  \/ \E s \in Sessions : handleSubmit(s)
  \/ \E s \in Sessions : InsertBatch(s)
  \/ \E s \in Sessions : InsertBatchItems(s)
  \/ \E s \in Sessions : CheckComplete(s)
  \/ \E s \in Sessions : Close(s)

Spec == Init /\ [][Next]_vars

\* ------------------------------------------------------------- status buttons
\* the calls the history page's cells make: the paid button of the payment
\* cell and the delivered button of the delivery cell
StatusButtons == {<<"payment_status", "paid">>, <<"delivery_status", "delivered">>}

\* the rows whose buttons are pressed
Pressed == Txs

\* the session whose delivery form runs beside the buttons
FormSession == 1

\* one delivery form (every step of Next, for that session) and the buttons
NextStatus ==
  \/ \E t \in Txs : Open(FormSession, t)
  \/ LoadItems(FormSession)
  \/ LoadBatches(FormSession)
  \/ LoadBatchItems(FormSession)
  \/ handleSubmit(FormSession)
  \/ InsertBatch(FormSession)
  \/ InsertBatchItems(FormSession)
  \/ CheckComplete(FormSession)
  \/ Close(FormSession)
  \/ \E t \in Pressed, b \in StatusButtons : handleUpdateStatus(t, b[1], b[2])

\* a delivery form together with the status buttons of the history page
SpecStatus == Init /\ [][NextStatus]_vars

\* ------------------------------------------------------------- receipt actions
sessionVars == <<pc, form, toast, callbacks, writeErrors, opens>>

\* TransactionHistory: a batch button of the history page, setViewDeliveryBatch;
\* the page of this session is showing (it renders the receipt instead of
\* itself, and no delivery form is mounted over it).  useEffect runs loadData;
\* its reads of business_settings and of the batch's own items feed only the
\* rendering, and the load ends in catch when the second fails.
ViewReceipt(s, b) ==
  /\ pc[s] = "closed"
  /\ receipt[s].pc = "closed"
  /\ \/ receipt' = [receipt EXCEPT ![s] = [NoReceipt EXCEPT !.pc = "loadTxItems",
                                                           !.transaction = b.transaction_id]]
     \/ receipt' = [receipt EXCEPT ![s] = [NoReceipt EXCEPT !.pc = "done",
                                                           !.transaction = b.transaction_id]]
  /\ UNCHANGED <<store, sessionVars, cleanup, office>>

\* loadData: the transaction's line items; an error leaves txItems null
ReceiptLoadTxItems(s) ==
  /\ receipt[s].pc = "loadTxItems"
  /\ \/ receipt' = [receipt EXCEPT ![s].pc = "loadAllBatches", ![s].txItemsNull = FALSE,
                                   ![s].txItems = SelectTransactionItems(receipt[s].transaction)]
     \/ receipt' = [receipt EXCEPT ![s].pc = "loadAllBatches"]
  /\ UNCHANGED <<store, sessionVars, cleanup, office>>

\* loadData: the ids of all batches of the transaction;
\* if (!allBatchesError && allBatches && txItems)
ReceiptLoadAllBatches(s) ==
  /\ receipt[s].pc = "loadAllBatches"
  /\ \/ /\ ~receipt[s].txItemsNull
        /\ receipt' = [receipt EXCEPT ![s].pc = "loadDelivered",
                                      ![s].allBatches = SelectBatchIds(receipt[s].transaction)]
     \/ receipt' = [receipt EXCEPT ![s].pc = "done"]
  /\ UNCHANGED <<store, sessionVars, cleanup, office>>

\* loadData: the items of those batches; setIsComplete(totalDelivered >= totalOrdered)
ReceiptLoadDelivered(s) ==
  /\ receipt[s].pc = "loadDelivered"
  /\ \/ receipt' = [receipt EXCEPT ![s].pc = "done", ![s].allBatches = {},
                      ![s].checked = TRUE,
                      ![s].isComplete = ReceiptComplete(receipt[s].txItems,
                                                        SelectBatchItems(receipt[s].allBatches))]
     \/ receipt' = [receipt EXCEPT ![s].pc = "done", ![s].allBatches = {}]
  /\ UNCHANGED <<store, sessionVars, cleanup, office>>

\* the receipt's close button -> onClose(): setViewDeliveryBatch(null)
CloseReceipt(s) ==
  /\ receipt[s].pc = "done"
  /\ receipt' = [receipt EXCEPT ![s] = NoReceipt]
  /\ UNCHANGED <<store, sessionVars, cleanup, office>>

NextReceipt ==
  \/ Next
  \/ \E s \in Sessions, b \in delivery_batches : ViewReceipt(s, b)
  \/ \E s \in Sessions : ReceiptLoadTxItems(s)
  \/ \E s \in Sessions : ReceiptLoadAllBatches(s)
  \/ \E s \in Sessions : ReceiptLoadDelivered(s)
  \/ \E s \in Sessions : CloseReceipt(s)

\* the delivery-form flow together with the batch receipts of the history page
SpecReceipt == Init /\ [][NextReceipt]_vars

\* ------------------------------------------------------------- the cleanup job
\* const DAYS_TO_KEEP = 14
DAYS_TO_KEEP == 14

\* new Date() of the request, in days
Now == 30

\* the ages in days of the files a bucket holds: strictly older than the
\* cutoff, exactly at the cutoff, and younger
Ages == {20, 14, 10, 1}

\* The buckets: up to MaxFiles files, listed in name order, named by their
\* position (upload names start with Date.now(), so they differ).
Buckets ==
  UNION {{[k \in 1..n |-> [name |-> k, created_at |-> Now - age[k]]] :
            age \in [1..n -> Ages]} : n \in 0..MaxFiles}

Methods == {"OPTIONS", "POST", "GET"}

\* cutoffDate.toISOString()
toISOString(date) == <<"iso", date>>

RECURSIVE SelectOld_AtCutoff(_, _)
\* variant: a file created exactly at the cutoff counts as old
SelectOld_AtCutoff(files, cutoffDate) ==
  IF files = <<>> THEN <<>>
  ELSE IF Head(files).created_at <= cutoffDate
       THEN <<Head(files)>> \o SelectOld_AtCutoff(Tail(files), cutoffDate)
       ELSE SelectOld_AtCutoff(Tail(files), cutoffDate)

RECURSIVE SelectOld(_, _)
\* files.filter(file => new Date(file.created_at) < cutoffDate)
SelectOld(files, cutoffDate) ==
  IF files = <<>> THEN <<>>
  ELSE IF Head(files).created_at < cutoffDate
       THEN <<Head(files)>> \o SelectOld(Tail(files), cutoffDate)
       ELSE SelectOld(Tail(files), cutoffDate)

\* variant: every result is counted, whatever its success flag
CountWhere_All(results, success) == Len(results)

RECURSIVE CountWhere(_, _)
\* deleteResults.filter(r => r.success === success).length
CountWhere(results, success) ==
  IF results = <<>> THEN 0
  ELSE (IF Head(results).success = success THEN 1 ELSE 0) + CountWhere(Tail(results), success)

RECURSIVE Without(_, _)
\* the bucket after the object of that name is removed
Without(bucket, name) ==
  IF bucket = <<>> THEN <<>>
  ELSE IF Head(bucket).name = name THEN Without(Tail(bucket), name)
       ELSE <<Head(bucket)>> \o Without(Tail(bucket), name)

\* Deno.serve handler to its first await: the OPTIONS preflight is answered at
\* once; otherwise cutoffDate is set and list() is called
CleanupRequest(method) ==
  /\ cleanup.pc \in {"idle", "responded"}
  /\ IF method = "OPTIONS"
     THEN cleanup' = [NoCleanup(cleanup.bucket) EXCEPT
                        !.pc = "responded", !.method = method,
                        !.response = [status |-> 200, body |-> [none |-> TRUE]]]
     ELSE cleanup' = [NoCleanup(cleanup.bucket) EXCEPT
                        !.pc = "list", !.method = method,
                        !.cutoffDate = Now - DAYS_TO_KEEP]
  /\ UNCHANGED <<store, sessionVars, receipt, office>>

\* the outer catch
CleanupFailed(error) ==
  [status |-> 500, body |-> [error |-> error, message |-> "Failed to cleanup old files"]]

\* variant: the empty listing is answered with the message of the next branch
NoFilesResponse_OtherMessage ==
  [status |-> 200, body |-> [message |-> "No old files to cleanup", deletedCount |-> 0]]

\* if (!files || files.length === 0)
NoFilesResponse ==
  [status |-> 200, body |-> [message |-> "No files to cleanup", deletedCount |-> 0]]

\* if (oldFiles.length === 0)
NoOldFilesResponse(files) ==
  [status |-> 200, body |-> [message |-> "No old files to cleanup", deletedCount |-> 0,
                             totalFiles |-> Len(files)]]

\* list() returns: listError is thrown to the outer catch (500); an empty
\* listing and a listing without old files are answered at once (200);
\* otherwise the delete loop starts
CleanupList ==
  /\ cleanup.pc = "list"
  /\ \/ cleanup' = [cleanup EXCEPT
                      !.pc = "responded", !.listError = TRUE,
                      !.response = CleanupFailed("listError")]
     \/ LET files == cleanup.bucket
            oldFiles == SelectOld(files, cleanup.cutoffDate)
        IN IF Len(files) = 0
           THEN cleanup' = [cleanup EXCEPT !.pc = "responded", !.response = NoFilesResponse]
           ELSE IF Len(oldFiles) = 0
           THEN cleanup' = [cleanup EXCEPT !.pc = "responded", !.files = files,
                                           !.response = NoOldFilesResponse(files)]
           ELSE cleanup' = [cleanup EXCEPT !.pc = "delete", !.files = files,
                                           !.oldFiles = oldFiles, !.i = 1]
  /\ UNCHANGED <<store, sessionVars, receipt, office>>

\* variant: a run with a failed deletion is answered as a failed run
CleanupCompleted_FailOnFailure(c, deleteResults) ==
  IF CountWhere(deleteResults, FALSE) > 0
  THEN [status |-> 500, body |-> [error |-> "deleteError",
                                  message |-> "Failed to cleanup old files"]]
  ELSE [status |-> 200,
        body |-> [message |-> "Cleanup completed",
                  deletedCount |-> CountWhere(deleteResults, TRUE),
                  failedCount |-> CountWhere(deleteResults, FALSE),
                  totalFilesInBucket |-> Len(c.files),
                  cutoffDate |-> toISOString(c.cutoffDate),
                  results |-> deleteResults]]

\* variant: the loop steps over the file after the current one
ForOfNext_SkipOne(i) == i + 2

\* for (const file of oldFiles): the position after position i
ForOfNext(i) == i + 1

\* the response after the loop
CleanupCompleted(c, deleteResults) ==
  [status |-> 200,
   body |-> [message |-> "Cleanup completed",
             deletedCount |-> CountWhere(deleteResults, TRUE),
             failedCount |-> CountWhere(deleteResults, FALSE),
             totalFilesInBucket |-> Len(c.files),
             cutoffDate |-> toISOString(c.cutoffDate),
             results |-> deleteResults]]

\* one iteration of the for loop: remove([file.name]) returns no error, returns
\* deleteError, or throws (the object may or may not be gone by then); the
\* result is pushed, and after the last file the response is built
CleanupRemove ==
  /\ cleanup.pc = "delete"
  /\ LET file == cleanup.oldFiles[cleanup.i]
         last == ForOfNext(cleanup.i) > Len(cleanup.oldFiles)
     IN \E outcome \in {"ok", "deleteError", "thrown"}, gone \in BOOLEAN :
          /\ gone = TRUE \/ outcome # "ok"
          /\ gone = FALSE \/ outcome # "deleteError"
          /\ LET result == IF outcome = "ok"
                           THEN [fileName |-> file.name, success |-> TRUE]
                           ELSE [fileName |-> file.name, success |-> FALSE, error |-> outcome]
                 deleteResults == Append(cleanup.deleteResults, result)
             IN cleanup' = [cleanup EXCEPT
                  !.bucket = IF gone THEN Without(cleanup.bucket, file.name) ELSE cleanup.bucket,
                  !.removeCalls = Append(cleanup.removeCalls, <<file.name, outcome>>),
                  !.deleteResults = deleteResults,
                  !.i = ForOfNext(cleanup.i),
                  !.pc = IF last THEN "responded" ELSE "delete",
                  !.response = IF last THEN CleanupCompleted(cleanup, deleteResults)
                               ELSE cleanup.response]
  /\ UNCHANGED <<store, sessionVars, receipt, office>>

\* requests to the function on a bucket of any content; the application is
\* at rest
InitCleanup == InitApp /\ \E bucket \in Buckets : cleanup = NoCleanup(bucket)

NextCleanup ==
  \/ \E method \in Methods : CleanupRequest(method)
  \/ CleanupList
  \/ CleanupRemove

SpecCleanup == InitCleanup /\ [][NextCleanup]_vars

\* ------------------------------------------------------------- office pages
\* the text inputs: empty, blanks only, and a text
Texts == {"", " ", "x"}

\* variant: the text is taken as typed
Trim_AsTyped(str) == str

\* String.prototype.trim()
Trim(str) == IF str = " " THEN "" ELSE str

\* the value of the refund amount input (type="number"): the empty string
\* <<>> or the decimal string of an amount <<n>>
AmountInputs(total) == {<<>>} \cup {<<n>> : n \in {-1, 0, 1, total, total + 1}}

\* parseFloat of such a string
parseFloat(str) == IF str = <<>> THEN "NaN" ELSE str[1]

\* the carts of the POS page at checkout: the empty cart and a cart of two
\* products
CheckoutCarts == {EmptyMap} \cup {cart \in Carts : DOMAIN cart = {1, 2}}

\* the reason, bank and account number of the refund form: all filled, or one
\* of them left empty or blank
RefundDetails ==
  {d \in [reason : Texts, bankName : {"", "x"}, accountNumber : Texts] :
     Cardinality({f \in {"reason", "bankName", "accountNumber"} : d[f] # "x"}) <= 1}

\* every handler below leaves the delivery flow, the receipt and the bucket alone
officeFrame == <<delivery_batches, delivery_batch_items, sessionVars, receipt, cleanup>>

\* the end of a handler: its toast and the callbacks it invoked remain, its
\* locals are gone
Ended(title, cbs) ==
  [NoDesk EXCEPT !.toast = title, !.callbacks = cbs,
                 !.checkouts = desk.checkouts, !.refundsMade = desk.refundsMade]

\* catch blocks of the office handlers: the error toast, the handler ends
OfficeFailed ==
  desk' = Ended("error", {})

\* POS.createTransaction to its first await: the two validations, then the
\* update or insert of the customer is issued
createTransaction ==
  /\ desk.pc = "idle"
  /\ \E cart \in CheckoutCarts, customerName \in Texts :
       IF DOMAIN cart = {}
       THEN desk' = [desk EXCEPT !.toast = "validation:cart", !.callbacks = {}]
       ELSE IF Trim(customerName) = ""
       THEN desk' = [desk EXCEPT !.toast = "validation:customer", !.callbacks = {}]
       ELSE /\ desk.checkouts < MaxCheckouts
            /\ desk' = [desk EXCEPT !.pc = "customer", !.cart = cart, !.toast = "none",
                                    !.customerName = customerName, !.callbacks = {}]
  /\ UNCHANGED <<pos_transactions, transaction_items, refunds, customers, officeFrame>>

\* createTransaction: the customer of that name is updated (no modelled
\* column changes) or inserted; an error ends the checkout
CheckoutCustomer ==
  /\ desk.pc = "customer"
  /\ \/ /\ customers' =
             IF \E c \in customers : c.name = desk.customerName THEN customers
             ELSE customers \cup {[id |-> Cardinality(customers) + 1,
                                   name |-> desk.customerName]}
        /\ desk' = [desk EXCEPT !.pc = "insertTransaction"]
     \/ OfficeFailed /\ UNCHANGED customers
  /\ UNCHANGED <<pos_transactions, transaction_items, refunds, officeFrame>>

\* the id of the next pos_transactions row
NewTransactionId == Cardinality(Txs) + desk.checkouts + 1

\* createTransaction: insert into pos_transactions ... .select().single()
CheckoutInsertTransaction ==
  /\ desk.pc = "insertTransaction"
  /\ \/ /\ pos_transactions' =
             [t \in DOMAIN pos_transactions \cup {NewTransactionId} |->
                IF t = NewTransactionId THEN NewTransaction(desk.cart) ELSE pos_transactions[t]]
        /\ desk' = [desk EXCEPT !.pc = "insertItems", !.transaction = NewTransactionId,
                                !.checkouts = desk.checkouts + 1]
     \/ OfficeFailed /\ UNCHANGED pos_transactions
  /\ UNCHANGED <<transaction_items, refunds, customers, officeFrame>>

\* createTransaction: insert into transaction_items (refused by the foreign
\* key when the transaction is gone); then the receipt and the success toast
CheckoutInsertItems ==
  /\ desk.pc = "insertItems"
  /\ \/ /\ desk.transaction \in DOMAIN pos_transactions
        /\ transaction_items' = transaction_items \cup LineItems(desk.transaction, desk.cart)
        /\ desk' = Ended("success", {})
     \/ OfficeFailed /\ UNCHANGED transaction_items
  /\ UNCHANGED <<pos_transactions, refunds, customers, officeFrame>>

\* variant: the amount is not compared with the total
RefundValidation_NoUpperLimit(refundAmount, total_amount, reason, bankName, accountNumber) ==
  IF refundAmount = <<>> \/ parseFloat(refundAmount) <= 0 THEN "validation:amount"
  ELSE IF Trim(reason) = "" THEN "validation:reason"
  ELSE IF bankName = "" THEN "validation:bank"
  ELSE IF Trim(accountNumber) = "" THEN "validation:account"
  ELSE "ok"

\* RefundForm.handleSubmit: the chain of validations, each ending the handler
\* with its toast
RefundValidation(refundAmount, total_amount, reason, bankName, accountNumber) ==
  IF refundAmount = <<>> \/ parseFloat(refundAmount) <= 0 THEN "validation:amount"
  ELSE IF parseFloat(refundAmount) > total_amount THEN "validation:amountOver"
  ELSE IF Trim(reason) = "" THEN "validation:reason"
  ELSE IF bankName = "" THEN "validation:bank"
  ELSE IF Trim(accountNumber) = "" THEN "validation:account"
  ELSE "ok"

\* TransactionHistory: the refund button of a row mounts RefundForm with the
\* page's copy of the row; RefundForm.handleSubmit to its await
RefundSubmit(t) ==
  /\ desk.pc = "idle"
  /\ t \in DOMAIN pos_transactions
  /\ \E refundAmount \in AmountInputs(pos_transactions[t].total_amount),
        d \in RefundDetails :
       LET v == RefundValidation(refundAmount, pos_transactions[t].total_amount,
                                 d.reason, d.bankName, d.accountNumber)
       IN IF v # "ok"
          THEN desk' = [desk EXCEPT !.toast = v, !.callbacks = {}]
          ELSE /\ desk.refundsMade < MaxRefunds
               /\ desk' = [desk EXCEPT !.pc = "insertRefund", !.transaction = t,
                                       !.refundAmount = parseFloat(refundAmount),
                                       !.reason = d.reason, !.bankName = d.bankName,
                                       !.accountNumber = d.accountNumber,
                                       !.toast = "none", !.callbacks = {}]
  /\ UNCHANGED <<pos_transactions, transaction_items, refunds, customers, officeFrame>>

\* RefundForm.handleSubmit: insert into refunds (refused by the foreign key
\* when the transaction is gone); success toast, onSuccess(), onClose()
RefundInsert ==
  /\ desk.pc = "insertRefund"
  /\ \/ /\ desk.transaction \in DOMAIN pos_transactions
        /\ refunds' = refunds \cup {[id |-> desk.refundsMade + 1,
                                     transaction_id |-> desk.transaction,
                                     refund_amount |-> desk.refundAmount]}
        /\ desk' = [Ended("success", {"onSuccess", "onClose"})
                       EXCEPT !.refundsMade = desk.refundsMade + 1]
     \/ OfficeFailed /\ UNCHANGED refunds
  /\ UNCHANGED <<pos_transactions, transaction_items, customers, officeFrame>>

\* CustomerManagement.handleSave to its await: the name validation
handleSave ==
  /\ desk.pc = "idle"
  /\ \E name \in Texts :
       IF Trim(name) = ""
       THEN desk' = [desk EXCEPT !.toast = "validation:name", !.callbacks = {}]
       ELSE desk' = [desk EXCEPT !.pc = "saveCustomer", !.customerName = name,
                                 !.toast = "none", !.callbacks = {}]
  /\ UNCHANGED <<pos_transactions, transaction_items, refunds, customers, officeFrame>>

\* handleSave: the insert of the new customer (the dialog opened by handleAdd)
SaveCustomer ==
  /\ desk.pc = "saveCustomer"
  /\ \/ /\ Cardinality(customers) < MaxCheckouts
        /\ customers' = customers \cup {[id |-> Cardinality(customers) + 1,
                                         name |-> desk.customerName]}
        /\ desk' = Ended("success", {})
     \/ OfficeFailed /\ UNCHANGED customers
  /\ UNCHANGED <<pos_transactions, transaction_items, refunds, officeFrame>>

\* variant: the delete removes the transaction row alone
DeleteTransaction_NoCascade(t) ==
  /\ pos_transactions' = [x \in DOMAIN pos_transactions \ {t} |-> pos_transactions[x]]
  /\ UNCHANGED <<transaction_items, refunds>>
  /\ UNCHANGED <<delivery_batches, delivery_batch_items>>

\* delete from pos_transactions where id = t: transaction_items and refunds
\* reference it ON DELETE CASCADE; delivery_batches.transaction_id is no
\* foreign key
DeleteTransaction(t) ==
  /\ pos_transactions' = [x \in DOMAIN pos_transactions \ {t} |-> pos_transactions[x]]
  /\ transaction_items' = {i \in transaction_items : i.transaction_id # t}
  /\ refunds' = {r \in refunds : r.transaction_id # t}
  /\ UNCHANGED <<delivery_batches, delivery_batch_items>>

\* TransactionHistory.handleDelete: the confirmed delete of a row of the page
handleDelete(t) ==
  /\ \/ DeleteTransaction(t)
     \/ UNCHANGED <<pos_transactions, transaction_items, refunds,
                    delivery_batches, delivery_batch_items>>
  /\ UNCHANGED <<customers, desk, sessionVars, receipt, cleanup>>

\* delete from delivery_batches where id = b (policy "Admins can delete
\* delivery batches"): delivery_batch_items reference it ON DELETE CASCADE
DeleteBatch(b) ==
  /\ delivery_batches' = {x \in delivery_batches : x.id # b}
  /\ delivery_batch_items' = {r \in delivery_batch_items : r.batch_id # b}
  /\ UNCHANGED <<pos_transactions, transaction_items, office, sessionVars, receipt, cleanup>>

NextOffice ==
  \/ createTransaction
  \/ CheckoutCustomer
  \/ CheckoutInsertTransaction
  \/ CheckoutInsertItems
  \/ \E t \in Txs : RefundSubmit(t)
  \/ RefundInsert
  \/ handleSave
  \/ SaveCustomer
  \/ \E t \in DOMAIN pos_transactions : handleDelete(t)
  \/ \E b \in delivery_batches : DeleteBatch(b.id)

\* the POS, history and customer pages of one staff session
SpecOffice == Init /\ [][NextOffice]_vars

\* one delivery form with the deletes of the history page
NextHistory ==
  \/ \E t \in Txs : Open(FormSession, t)
  \/ LoadItems(FormSession)
  \/ LoadBatches(FormSession)
  \/ LoadBatchItems(FormSession)
  \/ handleSubmit(FormSession)
  \/ InsertBatch(FormSession)
  \/ InsertBatchItems(FormSession)
  \/ CheckComplete(FormSession)
  \/ Close(FormSession)
  \/ \E t \in DOMAIN pos_transactions : handleDelete(t)

SpecHistory == Init /\ [][NextHistory]_vars

\* ------------------------------------------------- what the store holds
\* the sum of the quantities of a set of rows, as the size of a disjoint union
Total(rows) == Cardinality(UNION {{<<r, k>> : k \in 1..r.quantity} : r \in rows})

BatchesOf(t) == {b \in delivery_batches : b.transaction_id = t}
BatchItemsOf(t) == {r \in delivery_batch_items : \E b \in BatchesOf(t) : r.batch_id = b.id}
LineItemsOf(t) == {i \in transaction_items : i.transaction_id = t}
Named(rows, n) == {r \in rows : r.product_name = n}

Delivered(t, n) == Total(Named(BatchItemsOf(t), n))
Ordered(t, n) == Total(Named(LineItemsOf(t), n))

\* the delivered total of a name in the snapshot a form holds
SnapshotDelivered(f, n) ==
  Cardinality(UNION {{<<d, k>> : k \in 1..d.total_delivered} :
                       d \in {x \in f.deliveredItems : x.product_name = n}})

Submitting == {"insertBatch", "insertItems", "checkComplete"}
Max0(x) == IF x < 0 THEN 0 ELSE x

\* ------------------------------------------------------------- claims

\* C1: in every reachable state, for every transaction and product name, the
\* quantity delivered over all batch items of the transaction is at most the
\* quantity of that name ordered in its line items.
C1_NoOverDelivery ==
  \A t \in Txs, n \in Names : Delivered(t, n) <= Ordered(t, n)

\* C2: batch creation is not serialized.  Every batch taken alone stays within
\* what was ordered (each session submits quantities that fit the snapshot it
\* read), so an over-delivery is always the sum of batches that were each
\* valid-looking; the witness is the state in which two sessions that read the
\* same empty snapshot have both persisted their batch and a product is
\* delivered beyond its ordered quantity.
C2_EachBatchAloneFits ==
  \A b \in delivery_batches, n \in Names :
    Total(Named({r \in delivery_batch_items : r.batch_id = b.id}, n))
      <= Ordered(b.transaction_id, n)

C2_BothPersistedOverDelivered ==
  \E s1 \in Sessions, s2 \in Sessions :
    /\ s1 # s2
    /\ pc[s1] = "checkComplete" /\ pc[s2] = "checkComplete"
    /\ form[s1].transaction = form[s2].transaction
    /\ form[s1].batchCount = 0 /\ form[s2].batchCount = 0
    /\ form[s1].deliveredItems = {} /\ form[s2].deliveredItems = {}
    /\ form[s1].batch # form[s2].batch
    /\ \E n \in Names :
         Delivered(form[s1].transaction, n) > Ordered(form[s1].transaction, n)

\* C3: when handleSubmit ends successfully and the store then holds at least
\* as many delivered units as ordered units for the transaction, the
\* transaction's delivery status is 'delivered'.
C3_DeliveredWhenStoreComplete ==
  [][\A s \in Sessions :
       (pc[s] = "checkComplete" /\ pc'[s] = "closed"
        /\ Total(BatchItemsOf(form[s].transaction)) >= Total(LineItemsOf(form[s].transaction)))
       => pos_transactions'[form[s].transaction].delivery_status = "delivered"]_vars

\* C4: the completion check returns true exactly when the sum of all delivered
\* quantities it is given is at least the sum of all ordered quantities, the
\* totals being compared and not each product.  At batch creation the status
\* update is issued exactly when the delivered total of the form's snapshot
\* plus the quantities of the new batch reach the total of the line items; on
\* the receipt isComplete is set to exactly the comparison of the total of the
\* batch items read with the total of the line items read.
C4_CompleteIffTotalsReach ==
  /\ [](\A s \in Sessions :
          pc[s] = "checkComplete" =>
            (SubmitComplete(form[s])
               <=> Cardinality(UNION {{<<n, j>> : j \in 1..SnapshotDelivered(form[s], n)} :
                                        n \in Names})
                   + Cardinality(UNION {{<<k, j>> : j \in 1..form[s].itemsToDeliver[k]} :
                                          k \in DOMAIN form[s].itemsToDeliver})
                   >= Total(form[s].items)))
  /\ [][\A s \in Sessions :
          /\ (pc[s] = "checkComplete" /\ pc'[s] = "closed") =>
               IF SubmitComplete(form[s])
               THEN \/ pos_transactions'[form[s].transaction].delivery_status = "delivered"
                    \/ "status" \in writeErrors'[s]
               ELSE pos_transactions' = pos_transactions /\ "status" \notin writeErrors'[s]
          /\ (receipt[s].pc = "loadDelivered" /\ receipt'[s].checked) =>
               (receipt'[s].isComplete
                  <=> Total({r \in delivery_batch_items : r.batch_id \in receipt[s].allBatches})
                        >= Total(receipt[s].txItems))]_vars

\* the receipt reports a transaction complete of which one product is over-
\* delivered and another is not delivered in full
C4_CompleteWithProductShort ==
  \E s \in Sessions :
    /\ receipt[s].pc = "done" /\ receipt[s].checked /\ receipt[s].isComplete
    /\ \E n \in Names : Delivered(receipt[s].transaction, n) < Ordered(receipt[s].transaction, n)
    /\ \E n \in Names : Delivered(receipt[s].transaction, n) > Ordered(receipt[s].transaction, n)

C6_NothingSelectedNoWrites ==
  /\ [](\A s \in Sessions :
          pc[s] \in Submitting =>
            \E k \in DOMAIN form[s].selectedItems : form[s].selectedItems[k] > 0)
  /\ [][\A s \in Sessions :
          (toast'[s] = "validation" /\ toast[s] # "validation") =>
            (store' = store /\ pc[s] = "ready" /\ pc'[s] = "ready")]_vars

C6_ValidationErrorShown ==
  \E s \in Sessions :
    /\ toast[s] = "validation" /\ pc[s] = "ready"
    /\ form[s].items # {}
    /\ BatchesOf(form[s].transaction) = {}

\* C7: every delivery batch row in the store has batch items, once the
\* creation that inserted it is past its batch-item insert.
C7_NoBatchWithoutItems ==
  \A b \in delivery_batches :
    (\A s \in Sessions : ~(pc[s] = "insertItems" /\ form[s].batch = b.id))
      => \E r \in delivery_batch_items : r.batch_id = b.id

\* C8: when a write step of a creation returned an error, the form shows the
\* error notification and has run neither onSuccess nor onClose.
C8_WriteFailureReported ==
  \A s \in Sessions :
    (pc[s] \notin Submitting /\ writeErrors[s] # {}) =>
      (toast[s] = "error" /\ callbacks[s] = {})

\* C9: the remaining quantity the form computes for a line item is the ordered
\* quantity minus the delivered total of its name, clamped at 0.
C9_RemainingClamped ==
  \A s \in Sessions :
    pc[s] = "ready" =>
      \A item \in form[s].items :
        getRemainingQuantity(form[s], item)
          = Max0(item.quantity - SnapshotDelivered(form[s], item.product_name))

\* C10: the delivered quantity the form holds for a product name after
\* loadData is the sum of the quantities of the batch items, over all batches
\* of the transaction, whose name is exactly that name, and 0 without a match.
C10_DeliveredQuantityIsSum ==
  [][\A s \in Sessions :
       /\ (pc[s] = "loadBatches" /\ pc'[s] # "loadBatches" /\ toast'[s] = toast[s]) =>
            /\ form'[s].batches = {b.id : b \in BatchesOf(form[s].transaction)}
            /\ pc'[s] = "ready" =>
                 \A n \in Names : getDeliveredQuantity(form'[s], n) = 0
       /\ (pc[s] = "loadBatchItems" /\ pc'[s] = "ready" /\ toast'[s] = toast[s]) =>
            \A n \in Names :
              getDeliveredQuantity(form'[s], n)
                = Total({r \in delivery_batch_items :
                           r.batch_id \in form[s].batches /\ r.product_name = n})]_vars

C10_OtherCaseNotCounted ==
  \E s \in Sessions :
    /\ pc[s] = "ready"
    /\ getDeliveredQuantity(form[s], "A") > 0
    /\ getDeliveredQuantity(form[s], "a") = 0
    /\ \E item \in form[s].items : item.product_name = "a"

\* C11: when a delivery batch is inserted for a transaction that has N batches
\* in the store at that moment, its batch number is DEL-, the date, and N + 1
\* zero-padded to 3 digits.
C11_SequenceIsCountPlusOne ==
  [][\A b \in delivery_batches' \ delivery_batches :
       LET N == Cardinality(BatchesOf(b.transaction_id))
       IN b.batch_number = <<"DEL", DateStr, <<(N + 1) \div 100, ((N + 1) \div 10) % 10,
                                               (N + 1) % 10>>>>]_vars

\* C12: both status fields are one-way: along every sequence of button presses
\* and batch creations, a payment status that is 'paid' or 'cancelled' never
\* becomes 'pending' again, and a delivery status that is 'delivered' never
\* becomes 'pending' again.
C12_StatusOneWay ==
  [][\A t \in Txs :
       /\ pos_transactions[t].payment_status \in {"paid", "cancelled"}
            => pos_transactions'[t].payment_status # "pending"
       /\ pos_transactions[t].delivery_status = "delivered"
            => pos_transactions'[t].delivery_status # "pending"]_vars

\* a batch is being created for a transaction that is already paid and
\* marked delivered by hand
C12_BatchAfterPaidAndDelivered ==
  \E s \in Sessions :
    /\ pc[s] = "checkComplete"
    /\ form[s].transaction \in Pressed
    /\ BatchesOf(form[s].transaction) = {b \in delivery_batches : b.id = form[s].batch}
    /\ pos_transactions[form[s].transaction].payment_status = "paid"
    /\ pos_transactions[form[s].transaction].delivery_status = "delivered"

\* C13: from a transaction whose payment status is 'pending', a button press
\* can reach 'paid' and a button press can reach 'cancelled'.
C13_BothTransitionsFromPending ==
  \A t \in Pressed :
    pos_transactions[t].payment_status = "pending" =>
      /\ ENABLED (/\ \E b \in StatusButtons : handleUpdateStatus(t, b[1], b[2])
                  /\ pos_transactions'[t].payment_status = "paid")
      /\ ENABLED (/\ \E b \in StatusButtons : handleUpdateStatus(t, b[1], b[2])
                  /\ pos_transactions'[t].payment_status = "cancelled")

\* C14: a payment-status update leaves the transaction's delivery status
\* unchanged, and a delivery-status update, by the button or by a completing
\* batch, leaves its payment status unchanged; no step changes total_amount.
C14_StatusFieldsIndependent ==
  [][\A t \in Txs :
       /\ pos_transactions'[t].payment_status # pos_transactions[t].payment_status
            => pos_transactions'[t].delivery_status = pos_transactions[t].delivery_status
       /\ pos_transactions'[t].delivery_status # pos_transactions[t].delivery_status
            => pos_transactions'[t].payment_status = pos_transactions[t].payment_status
       /\ pos_transactions'[t].total_amount = pos_transactions[t].total_amount]_vars

\* a paid transaction has been marked delivered by a completing batch
C14_PaidThenDeliveredByBatch ==
  \E t \in Pressed, s \in Sessions :
    /\ pos_transactions[t].payment_status = "paid"
    /\ pos_transactions[t].delivery_status = "delivered"
    /\ pos_transactions[t].total_amount > 0
    /\ toast[s] = "success" /\ writeErrors[s] = {}
    /\ Total(BatchItemsOf(t)) = Total(LineItemsOf(t))
    /\ Cardinality(BatchesOf(t)) = 1

\* ------------------------------------------------------------- cleanup claims
\* a request other than the preflight has been answered
Answered == cleanup.pc = "responded" /\ cleanup.method # "OPTIONS"

\* the age in days of a listed file at the request
AgeDays(f) == Now - f.created_at

\* the names of the listed files older than DAYS_TO_KEEP days, in listing order
OldNames ==
  LET old == SelectSeq(cleanup.files, LAMBDA f : AgeDays(f) > DAYS_TO_KEEP)
  IN [k \in 1..Len(old) |-> old[k].name]

\* C15: in one run a deletion is attempted for a listed file if and only if
\* its creation time is strictly older than now minus 14 days: no younger
\* file and no file created exactly at the cutoff is ever passed to remove,
\* and when the run has answered every older file has been.
C15_RemovedIffOlderThanCutoff ==
  /\ \A k \in 1..Len(cleanup.removeCalls) :
       \E j \in 1..Len(cleanup.files) :
         /\ cleanup.files[j].name = cleanup.removeCalls[k][1]
         /\ AgeDays(cleanup.files[j]) > DAYS_TO_KEEP
  /\ (Answered /\ ~cleanup.listError) =>
       \A j \in 1..Len(cleanup.files) :
         AgeDays(cleanup.files[j]) > DAYS_TO_KEEP =>
           \E k \in 1..Len(cleanup.removeCalls) :
             cleanup.removeCalls[k][1] = cleanup.files[j].name

\* of a file 20 days old and a file exactly 14 days old, the first alone was
\* passed to remove
C15_CutoffFileKept ==
  /\ Answered /\ cleanup.response.status = 200
  /\ Len(cleanup.removeCalls) = 1
  /\ \E j, k \in 1..Len(cleanup.files) :
       /\ AgeDays(cleanup.files[j]) = 20
       /\ cleanup.removeCalls[1][1] = cleanup.files[j].name
       /\ AgeDays(cleanup.files[k]) = DAYS_TO_KEEP

\* C16: in the result of a run that attempted deletions, deletedCount is the
\* number of remove calls that succeeded, failedCount the number that returned
\* an error or threw, their sum the number of listed files older than the
\* cutoff, and totalFilesInBucket the number of files listed.
C16_CountsMatchOutcomes ==
  (Answered /\ cleanup.removeCalls # <<>>) =>
    LET body == cleanup.response.body
        calls == cleanup.removeCalls
    IN /\ body.deletedCount = Cardinality({k \in 1..Len(calls) : calls[k][2] = "ok"})
       /\ body.failedCount
            = Cardinality({k \in 1..Len(calls) : calls[k][2] \in {"deleteError", "thrown"}})
       /\ body.deletedCount + body.failedCount = Len(OldNames)
       /\ body.totalFilesInBucket = Len(cleanup.files)

\* one deletion succeeded, one returned an error and one threw
C16_MixedOutcomesCounted ==
  /\ Answered
  /\ {cleanup.removeCalls[k][2] : k \in 1..Len(cleanup.removeCalls)}
       = {"ok", "deleteError", "thrown"}
  /\ cleanup.response.body.deletedCount = 1
  /\ cleanup.response.body.failedCount = 2

\* C17: a failed deletion does not stop the scan: while the loop runs the
\* remove calls made so far are the first older files in listing order, and
\* when the run answers every older file has had exactly one remove call and
\* has exactly one entry in results, in listing order, whatever the outcomes.
C17_EveryOldFileAttemptedOnce ==
  LET calls == cleanup.removeCalls
      results == cleanup.deleteResults
  IN /\ Len(calls) <= Len(OldNames)
     /\ \A k \in 1..Len(calls) : calls[k][1] = OldNames[k]
     /\ Len(results) = Len(calls)
     /\ \A k \in 1..Len(results) :
          /\ results[k].fileName = calls[k][1]
          /\ results[k].success = (calls[k][2] = "ok")
     /\ (Answered /\ ~cleanup.listError) =>
          /\ Len(calls) = Len(OldNames)
          /\ OldNames # <<>> => cleanup.response.body.results = results

\* the first deletion threw, the second returned an error, and the third
\* file was still attempted
C17_ScanContinuedAfterFailures ==
  /\ Answered
  /\ Len(cleanup.removeCalls) = 3
  /\ cleanup.removeCalls[1][2] = "thrown"
  /\ cleanup.removeCalls[2][2] = "deleteError"
  /\ cleanup.removeCalls[3][2] = "ok"

\* C18: a run whose listing is empty answers deletedCount = 0 with the message
\* 'No files to cleanup', which no other outcome carries, and makes no remove
\* call.
C18_EmptyListingNoFilesMessage ==
  [][(cleanup.pc = "list" /\ cleanup'.pc = "responded"
      /\ ~cleanup'.listError) =>
       /\ cleanup.bucket = <<>> =>
            /\ cleanup'.response.body.deletedCount = 0
            /\ cleanup'.response.body.message = "No files to cleanup"
            /\ cleanup'.removeCalls = <<>>
            /\ cleanup'.bucket = <<>>
       /\ cleanup.bucket # <<>> =>
            cleanup'.response.body.message # "No files to cleanup"]_vars
  /\ [](Answered =>
          (cleanup.response.body.message = "No files to cleanup"
             => (cleanup.files = <<>> /\ cleanup.removeCalls = <<>> /\ ~cleanup.listError)))

\* a GET or POST run on an empty bucket has been answered
C18_EmptyBucketAnswered ==
  /\ Answered
  /\ cleanup.bucket = <<>> /\ ~cleanup.listError
  /\ cleanup.response.status = 200
  /\ cleanup.response.body.deletedCount = 0
  /\ cleanup.removeCalls = <<>>

\* C19: the endpoint answers 200 whenever the listing succeeds, also when some
\* or all deletions fail, and 500 exactly when the listing call fails.
C19_Status500OnlyOnListError ==
  Answered =>
    /\ cleanup.response.status \in {200, 500}
    /\ cleanup.response.status = 500 <=> cleanup.listError
    /\ (\E k \in 1..Len(cleanup.removeCalls) : cleanup.removeCalls[k][2] # "ok")
         => cleanup.response.status = 200

\* every deletion of a run failed and the run was answered 200
C19_AllDeletionsFailedStill200 ==
  /\ Answered
  /\ Len(cleanup.removeCalls) >= 2
  /\ \A k \in 1..Len(cleanup.removeCalls) : cleanup.removeCalls[k][2] # "ok"
  /\ cleanup.response.status = 200

\* C20: every 200 response to a POST or GET run carries the fields
\* deletedCount, failedCount, totalFilesInBucket, cutoffDate and results.
C20_AllFieldsIn200 ==
  (Answered /\ cleanup.response.status = 200) =>
    {"deletedCount", "failedCount", "totalFilesInBucket", "cutoffDate", "results"}
      \subseteq DOMAIN cleanup.response.body

\* C24: the form offers line items for selection only after all reads of
\* loadData succeeded: the items appear in the step that ends the load (with
\* no batch of the transaction to read, or with the delivered quantities of
\* the batch items just read), a failed read leaves the form without items,
\* and no submit runs from a form without items.
C24_NoItemsOnPartialRead ==
  /\ [](\A s \in Sessions :
          /\ toast[s] = "loadError" => form[s].items = {}
          /\ pc[s] \in {"loadItems", "loadBatches", "loadBatchItems"} => form[s].items = {}
          /\ pc[s] \in Submitting => form[s].items # {})
  /\ [][\A s \in Sessions :
          (form[s].items = {} /\ form'[s].items # {}) =>
            /\ toast'[s] # "loadError"
            /\ form'[s].items = LineItemsOf(form[s].transaction)
            /\ \/ pc[s] = "loadBatches" /\ BatchesOf(form[s].transaction) = {}
               \/ /\ pc[s] = "loadBatchItems"
                  /\ \A n \in Names :
                       SnapshotDelivered(form'[s], n)
                         = Total({r \in delivery_batch_items :
                                    r.batch_id \in form[s].batches /\ r.product_name = n})]_vars

\* the read of the batch items failed after the two reads before it
\* succeeded, and the form shows no item
C24_ThirdReadFailed ==
  \E s \in Sessions :
    /\ pc[s] = "ready" /\ toast[s] = "loadError"
    /\ form[s].transactionItems # {} /\ form[s].batches # {}
    /\ form[s].items = {}

\* C28: two delivery batches of the same transaction created on the same
\* date never carry the same batch number.
C28_BatchNumbersUnique ==
  \A b1 \in delivery_batches, b2 \in delivery_batches :
    (b1.id # b2.id /\ b1.transaction_id = b2.transaction_id)
      => b1.batch_number # b2.batch_number

\* C29: the batch flow sets the delivery status to 'delivered' only after the
\* batch insert and the batch-item insert of that submit succeeded; a submit
\* in which either insert fails leaves the delivery status unchanged.
C29_DeliveredOnlyAfterBothInserts ==
  [][\A s \in Sessions :
       /\ (pc[s] \in {"insertBatch", "insertItems"} /\ pc'[s] = "ready")
            => pos_transactions' = pos_transactions
       /\ (pc[s] \in Submitting /\ pc'[s] # pc[s]
           /\ pos_transactions'[form[s].transaction].delivery_status
                # pos_transactions[form[s].transaction].delivery_status) =>
            /\ pos_transactions'[form[s].transaction].delivery_status = "delivered"
            /\ \E b \in delivery_batches :
                 /\ b.id = form[s].batch /\ b.transaction_id = form[s].transaction
                 /\ b.batch_number = form[s].batchNumber
            /\ {r.transaction_item_id : r \in {x \in delivery_batch_items :
                                                 x.batch_id = form[s].batch}}
                 = DOMAIN form[s].itemsToDeliver]_vars

\* a submit whose item insert failed after its batch insert, on a
\* transaction still pending
C29_ItemInsertFailedStillPending ==
  \E s \in Sessions :
    /\ pc[s] = "ready" /\ "items" \in writeErrors[s]
    /\ pos_transactions[form[s].transaction].delivery_status = "pending"
    /\ BatchesOf(form[s].transaction) # {}

\* the product names of the transaction's line items are pairwise distinct
DistinctNames(t) ==
  \A i \in LineItemsOf(t), j \in LineItemsOf(t) : i.id # j.id => i.product_name # j.product_name

\* C27: when batch creations on a transaction do not interleave (one form at
\* a time) and the names of its line items are distinct, every quantity a
\* submit writes is between 1 and what remains of the item in the store, and
\* the delivered total of each product never exceeds its ordered quantity.
C27_SequentialStaysWithinOrder ==
  /\ [](\A t \in Txs :
          DistinctNames(t) => \A n \in Names : Delivered(t, n) <= Ordered(t, n))
  /\ [][\A r \in delivery_batch_items' \ delivery_batch_items :
          \E b \in delivery_batches :
            /\ b.id = r.batch_id
            /\ DistinctNames(b.transaction_id) =>
                 /\ 1 <= r.quantity
                 /\ r.quantity <= Ordered(b.transaction_id, r.product_name)
                                    - Delivered(b.transaction_id, r.product_name)]_vars

\* an order of two products delivered in full by two batches, one after the
\* other
C27_DeliveredInTwoBatches ==
  /\ DistinctNames(1)
  /\ Cardinality({b \in BatchesOf(1) : \E r \in delivery_batch_items : r.batch_id = b.id}) = 2
  /\ \A n \in Names : Delivered(1, n) = Ordered(1, n)
  /\ \E n \in Names : Ordered(1, n) > 0

\* C26: every delivery batch in the store belongs to an existing transaction,
\* and so does every delivery batch item through its batch, after any
\* sequence of batch creations and transaction deletions.
C26_BatchesBelongToTransactions ==
  /\ \A b \in delivery_batches : b.transaction_id \in DOMAIN pos_transactions
  /\ \A r \in delivery_batch_items :
       \E b \in delivery_batches :
         b.id = r.batch_id /\ b.transaction_id \in DOMAIN pos_transactions

\* the transactions and the delivery batches a step removes
DeletedTransactions == DOMAIN pos_transactions \ DOMAIN pos_transactions'
DeletedBatches == {b.id : b \in delivery_batches} \ {b.id : b \in delivery_batches'}

\* C21: a step that deletes a transaction leaves no line item and no refund
\* of that transaction, a step that deletes a delivery batch leaves no batch
\* item of that batch, and the step removes no other row: the rows it removes
\* are the parent and exactly these children, and the rows that stay are
\* unchanged.
C21_DeleteCascadesToChildrenOnly ==
  [][(DeletedTransactions # {} \/ DeletedBatches # {}) =>
       /\ \A i \in transaction_items' : i.transaction_id \notin DeletedTransactions
       /\ \A r \in refunds' : r.transaction_id \notin DeletedTransactions
       /\ \A r \in delivery_batch_items' : r.batch_id \notin DeletedBatches
       /\ Cardinality(DeletedTransactions) + Cardinality(DeletedBatches) = 1
       /\ \A t \in DOMAIN pos_transactions' : pos_transactions'[t] = pos_transactions[t]
       /\ transaction_items' =
            {i \in transaction_items : i.transaction_id \notin DeletedTransactions}
       /\ refunds' = {r \in refunds : r.transaction_id \notin DeletedTransactions}
       /\ delivery_batches' = {b \in delivery_batches : b.id \notin DeletedBatches}
       /\ delivery_batch_items' =
            {r \in delivery_batch_items : r.batch_id \notin DeletedBatches}
       /\ customers' = customers]_vars

\* a refunded transaction was deleted and its refund went with it, the only
\* delivery batch was deleted and its items went with it, and the other
\* transaction still has its line items
C21_ParentsDeletedOthersKept ==
  /\ desk.refundsMade >= 1
  /\ refunds = {}
  /\ delivery_batches = {}
  /\ delivery_batch_items = {}
  /\ \E t \in Txs :
       /\ DOMAIN pos_transactions = {t}
       /\ LineItemsOf(t) # {}
       /\ transaction_items = LineItemsOf(t)

\* C25: every transaction row in the store has at least one line item, also
\* after a checkout whose line-item insert failed after its transaction insert
\* succeeded.
C25_EveryTransactionHasLineItems ==
  desk.pc = "idle" => \A t \in DOMAIN pos_transactions : LineItemsOf(t) # {}

\* C22: every refund row has an amount above 0 and at most the total of its
\* transaction, and a submission passes the validation of RefundForm only
\* with such an amount: one whose amount is missing, not positive or above
\* the total is rejected, and a rejected submission inserts nothing.
C22_RefundAmountWithinTotal ==
  /\ [](\A r \in refunds :
          /\ 0 < r.refund_amount
          /\ r.refund_amount <= pos_transactions[r.transaction_id].total_amount)
  /\ [][/\ (desk.pc = "idle" /\ desk'.pc = "insertRefund") =>
             /\ 0 < desk'.refundAmount
             /\ desk'.refundAmount <= pos_transactions[desk'.transaction].total_amount
        /\ desk'.toast \in {"validation:amount", "validation:amountOver"} =>
             refunds' \subseteq refunds
        /\ \A r \in refunds' \ refunds :
             /\ desk.pc = "insertRefund"
             /\ r.refund_amount = desk.refundAmount
             /\ r.transaction_id = desk.transaction]_vars

\* a refund of the whole total is stored, and a later submission above the
\* total was rejected
C22_FullRefundThenRejected ==
  /\ \E r \in refunds : r.refund_amount = pos_transactions[r.transaction_id].total_amount
  /\ Cardinality(refunds) = 1
  /\ desk.refundsMade = 1
  /\ desk.toast = "validation:amountOver"

\* the sum of the amounts of a set of refund rows
RECURSIVE SumRefunds(_)
SumRefunds(rows) ==
  IF rows = {} THEN 0
  ELSE LET r == CHOOSE x \in rows : TRUE
       IN r.refund_amount + SumRefunds(rows \ {r})

\* C30: the amounts of all refunds stored for a transaction sum to at most
\* the transaction's total amount.
C30_RefundsSumWithinTotal ==
  \A t \in DOMAIN pos_transactions :
    SumRefunds({r \in refunds : r.transaction_id = t}) <= pos_transactions[t].total_amount

\* the notifications of the validations of the three forms
ValidationToasts ==
  {"validation:cart", "validation:customer", "validation:amount", "validation:amountOver",
   "validation:reason", "validation:bank", "validation:account", "validation:name"}

\* a text with nothing but blanks
Blank(str) == str \in {"", " "}

\* C23: a validation error mutates no stored state.  A step that ends in a
\* validation notification leaves every table as it was and the handler at
\* rest; a checkout goes on to its first request only with a cart that is not
\* empty and a customer name that is not blank, a refund only with a reason,
\* a bank and an account number that are not blank, a customer save only with
\* a name that is not blank; and no row is inserted while the handlers are at
\* rest.
C23_ValidationErrorWritesNothing ==
  [][/\ (desk'.toast \in ValidationToasts /\ desk' # desk) =>
          /\ desk.pc = "idle" /\ desk'.pc = "idle"
          /\ UNCHANGED <<store, refunds, customers>>
     /\ (desk.pc = "idle" /\ desk'.pc = "customer") =>
          DOMAIN desk'.cart # {} /\ ~Blank(desk'.customerName)
     /\ (desk.pc = "idle" /\ desk'.pc = "insertRefund") =>
          ~Blank(desk'.reason) /\ desk'.bankName # "" /\ ~Blank(desk'.accountNumber)
     /\ (desk.pc = "idle" /\ desk'.pc = "saveCustomer") => ~Blank(desk'.customerName)
     /\ desk.pc = "idle" =>
          /\ DOMAIN pos_transactions' \subseteq DOMAIN pos_transactions
          /\ transaction_items' \subseteq transaction_items
          /\ refunds' \subseteq refunds
          /\ customers' \subseteq customers]_vars

\* a customer save with a blank name was refused while the store holds a
\* checkout's transaction, a refund and a customer
C23_BlankNameRefused ==
  /\ desk.toast = "validation:name"
  /\ desk.checkouts = 1
  /\ refunds # {}
  /\ customers # {}

====
